---- MODULE Spec2Model ----
(***************************************************************************)
(* Model of the command-line front end of the memory scanner               *)
(* (src/src/cli/mod.rs) together with the scanning core it drives.  The    *)
(* core (crate::core::scan, crate::core::mem) is modelled from its         *)
(* specification; the command handlers, the address-literal parser and the *)
(* value-type parser are modelled from the source.                         *)
(*                                                                         *)
(* Text is a sequence of one-character strings.  A byte is a number in     *)
(* 0..255.  An unsigned 64-bit value is kept as the sequence of its hex    *)
(* digits without leading zeros (most significant first), so that the      *)
(* full 64-bit range and its overflow are exact.                           *)
(***************************************************************************)
EXTENDS Integers, Sequences, FiniteSets, TLC

VARIABLES
    mem,          \* target process memory: the byte at address a is mem[a + 1]
    regions,      \* mapping table of the live target: sequence of regions
    cmd,          \* the command line of the current invocation
    pc,           \* "Idle", "Scanning", "Done", "Failed"
    err,          \* error kind of a failed invocation, "None" otherwise
    touched,      \* the invocation enumerated, read or wrote the target
    request,      \* the scan request built by scan_memory
    eligible,     \* regions selected for the scan (clipped)
    idx,          \* next eligible region to read
    results,      \* scan results accumulated by the engine
    readOk,       \* indexes of eligible regions that were read
    softFailures, \* number of eligible regions skipped
    printed,      \* rows printed by scan_memory
    out,          \* text printed by read_memory / value computed by a codec step
    prev,         \* summary of the previous completed invocation
    nops          \* invocations completed so far

vars == <<mem, regions, cmd, pc, err, touched, request, eligible, idx,
          results, readOk, softFailures, printed, out, prev, nops>>

-----------------------------------------------------------------------------
(* Characters and bytes *)

\* The 7-bit character set: ASCII[b + 1] names the character with code b.
ASCII ==
  <<
     "<00>", "<01>", "<02>", "<03>", "<04>", "<05>", "<06>", "<07>",
     "<08>", "<09>", "<0a>", "<0b>", "<0c>", "<0d>", "<0e>", "<0f>",
     "<10>", "<11>", "<12>", "<13>", "<14>", "<15>", "<16>", "<17>",
     "<18>", "<19>", "<1a>", "<1b>", "<1c>", "<1d>", "<1e>", "<1f>",
     " ", "<21>", "<22>", "<23>", "<24>", "<25>", "<26>", "<27>",
     "<28>", "<29>", "<2a>", "+", "<2c>", "-", ".", "<2f>",
     "0", "1", "2", "3", "4", "5", "6", "7",
     "8", "9", "<3a>", "<3b>", "<3c>", "<3d>", "<3e>", "<3f>",
     "<40>", "A", "B", "C", "D", "E", "F", "G",
     "H", "I", "J", "K", "L", "M", "N", "O",
     "P", "Q", "R", "S", "T", "U", "V", "W",
     "X", "Y", "Z", "<5b>", "<5c>", "<5d>", "<5e>", "_",
     "<60>", "a", "b", "c", "d", "e", "f", "g",
     "h", "i", "j", "k", "l", "m", "n", "o",
     "p", "q", "r", "s", "t", "u", "v", "w",
     "x", "y", "z", "<7b>", "<7c>", "<7d>", "<7e>", "<7f>"
  >>

CharCode(c) == (CHOOSE i \in DOMAIN ASCII : ASCII[i] = c) - 1

Chr(b) == ASCII[b + 1]

\* char::to_lowercase on the 7-bit set
ToLowerChar(c) ==
    LET b == CharCode(c) IN IF b >= 65 /\ b <= 90 THEN Chr(b + 32) ELSE c

to_lowercase(s) == [i \in DOMAIN s |-> ToLowerChar(s[i])]

\* char::to_digit(radix): the digit's value, or -1
to_digit(c, radix) ==
    LET b == CharCode(c)
        v == IF b >= 48 /\ b <= 57 THEN b - 48
             ELSE IF b >= 97 /\ b <= 122 THEN b - 97 + 10
             ELSE IF b >= 65 /\ b <= 90 THEN b - 65 + 10
             ELSE -1
    IN IF v >= 0 /\ v < radix THEN v ELSE -1

RECURSIVE StripZeros(_)
StripZeros(ds) ==
    IF ds # <<>> /\ ds[1] = 0 THEN StripZeros(Tail(ds)) ELSE ds

-----------------------------------------------------------------------------
(* Address literals: parse_address and the inline parses of read/write *)

\* str::trim_start_matches("0x"): removes every leading repetition of "0x"
RECURSIVE trim_start_matches_0x(_)
trim_start_matches_0x(s) ==
    IF Len(s) >= 2 /\ s[1] = "0" /\ s[2] = "x"
    THEN trim_start_matches_0x(SubSeq(s, 3, Len(s)))
    ELSE s

\* u64::from_str_radix(s, 16): an optional "+" sign, then one or more hex
\* digits of either case; the value must fit in 64 bits (16 hex digits).
from_str_radix_16(s) ==
    LET body == IF s # <<>> /\ s[1] = "+" THEN Tail(s) ELSE s
        ds   == [i \in DOMAIN body |-> to_digit(body[i], 16)]
        val  == StripZeros(ds)
    IN IF s = <<>> THEN [ok |-> FALSE, err |-> "InvalidValue", val |-> <<>>]
       ELSE IF body = <<>> \/ \E i \in DOMAIN ds : ds[i] < 0
            THEN [ok |-> FALSE, err |-> "InvalidValue", val |-> <<>>]
       ELSE IF Len(val) > 16
            THEN [ok |-> FALSE, err |-> "InvalidValue", val |-> <<>>]
       ELSE [ok |-> TRUE, err |-> "None", val |-> val]

\* The literal parse shared by the three handlers (lines 106-107, 172, 198)
parse_hex_literal(s) == from_str_radix_16(trim_start_matches_0x(s))

\* An absent optional argument
NoArg == <<"<none>">>

\* parse_address(Option<&str>) -> Result<Option<u64>>
parse_address(addr_str) ==
    IF addr_str = NoArg
    THEN [ok |-> TRUE, err |-> "None", some |-> FALSE, val |-> <<>>]
    ELSE LET r == parse_hex_literal(addr_str)
         IN [ok |-> r.ok, err |-> r.err, some |-> r.ok, val |-> r.val]

\* Numeric value of a 64-bit value where it is small; every value of more
\* than six hex digits lies beyond the modelled address space and is
\* represented by one address beyond it.
U64ToNat(val) ==
    LET F[i \in 0..Len(val)] == IF i = 0 THEN 0 ELSE F[i - 1] * 16 + val[i]
    IN IF Len(val) > 6 THEN 16777216 ELSE F[Len(val)]

\* a < b on 64-bit values
U64Less(a, b) ==
    \/ Len(a) < Len(b)
    \/ /\ Len(a) = Len(b)
       /\ \E i \in DOMAIN a :
            /\ a[i] < b[i]
            /\ \A j \in 1..(i - 1) : a[j] = b[j]

-----------------------------------------------------------------------------
(* Value types *)

\* Variant: "i32" is taken for the unsigned type of the same width
parse_value_type_confused(type_str) ==
    LET t == to_lowercase(type_str) IN
    IF      t = <<"u", "3", "2">> THEN [ok |-> TRUE, err |-> "None", type |-> "U32"]
    ELSE IF t = <<"i", "3", "2">> THEN [ok |-> TRUE, err |-> "None", type |-> "U32"]
    ELSE IF t = <<"u", "6", "4">> THEN [ok |-> TRUE, err |-> "None", type |-> "U64"]
    ELSE IF t = <<"i", "6", "4">> THEN [ok |-> TRUE, err |-> "None", type |-> "I64"]
    ELSE IF t = <<"s", "t", "r", "i", "n", "g">>
                                  THEN [ok |-> TRUE, err |-> "None", type |-> "String"]
    ELSE IF t = <<"h", "e", "x">> THEN [ok |-> TRUE, err |-> "None", type |-> "Hex"]
    ELSE [ok |-> FALSE, err |-> "InvalidValue", type |-> "None"]

\* parse_value_type: case-insensitive name of one of the six value types
parse_value_type(type_str) ==
    LET t == to_lowercase(type_str) IN
    IF      t = <<"u", "3", "2">> THEN [ok |-> TRUE, err |-> "None", type |-> "U32"]
    ELSE IF t = <<"i", "3", "2">> THEN [ok |-> TRUE, err |-> "None", type |-> "I32"]
    ELSE IF t = <<"u", "6", "4">> THEN [ok |-> TRUE, err |-> "None", type |-> "U64"]
    ELSE IF t = <<"i", "6", "4">> THEN [ok |-> TRUE, err |-> "None", type |-> "I64"]
    ELSE IF t = <<"s", "t", "r", "i", "n", "g">>
                                  THEN [ok |-> TRUE, err |-> "None", type |-> "String"]
    ELSE IF t = <<"h", "e", "x">> THEN [ok |-> TRUE, err |-> "None", type |-> "Hex"]
    ELSE [ok |-> FALSE, err |-> "InvalidValue", type |-> "None"]

IsNumeric(t) == t \in {"U32", "I32", "U64", "I64"}
IsSigned(t)  == t \in {"I32", "I64"}

\* fixed_width: 4 or 8 for the numeric types, 0 (none) for String and Hex
fixed_width(t) ==
    IF t \in {"U32", "I32"} THEN 4 ELSE IF t \in {"U64", "I64"} THEN 8 ELSE 0

-----------------------------------------------------------------------------
(* Value codec: multi-byte arithmetic on little-endian byte sequences *)

Zeros(w) == [i \in 1..w |-> 0]

\* b * m + c on a little-endian byte sequence; the result has one more
\* element than b, the carry out of the top byte.
RECURSIVE MulAdd(_, _, _)
MulAdd(b, m, c) ==
    IF b = <<>> THEN <<c>>
    ELSE LET t == b[1] * m + c
         IN <<t % 256>> \o MulAdd(Tail(b), m, t \div 256)

\* The magnitude named by the digits ds in the given base, in Len(acc) bytes
RECURSIVE ParseMag(_, _, _)
ParseMag(ds, base, acc) ==
    IF ds = <<>> THEN [ok |-> TRUE, bytes |-> acc]
    ELSE LET r == MulAdd(acc, base, ds[1])
         IN IF r[Len(r)] # 0 THEN [ok |-> FALSE, bytes |-> <<>>]
            ELSE ParseMag(Tail(ds), base, SubSeq(r, 1, Len(acc)))

\* Two's complement negation at the width of b
Negate(b) ==
    SubSeq(MulAdd([i \in DOMAIN b |-> 255 - b[i]], 1, 1), 1, Len(b))

Reverse(s) == [i \in DOMAIN s |-> s[Len(s) + 1 - i]]

\* Big-endian bytes divided by ten: the quotient's bytes, then the remainder
RECURSIVE DivRem10(_, _)
DivRem10(be, rem) ==
    IF be = <<>> THEN <<rem>>
    ELSE LET cur == rem * 256 + be[1]
         IN <<cur \div 10>> \o DivRem10(Tail(be), cur % 10)

RECURSIVE DecimalDigits(_)
DecimalDigits(be) ==
    IF \A i \in DOMAIN be : be[i] = 0 THEN <<>>
    ELSE LET r == DivRem10(be, 0)
         IN DecimalDigits(SubSeq(r, 1, Len(be))) \o <<Chr(48 + r[Len(r)])>>

HasHexPrefix(s) == Len(s) >= 2 /\ s[1] = "0" /\ s[2] = "x"

\* encode for U32/I32/U64/I64: base-10 text, or 0x-prefixed hex, an optional
\* "-" for the signed types; little-endian two's complement of the width.
encode_numeric(text, t) ==
    LET w     == fixed_width(t)
        neg   == text # <<>> /\ text[1] = "-"
        body0 == IF neg THEN Tail(text) ELSE text
        hex   == HasHexPrefix(body0)
        body  == IF hex THEN SubSeq(body0, 3, Len(body0)) ELSE body0
        base  == IF hex THEN 16 ELSE 10
        ds    == [i \in DOMAIN body |-> to_digit(body[i], base)]
        mag   == ParseMag(ds, base, Zeros(w))
        top   == mag.bytes[w]
        minv  == top = 128 /\ \A i \in 1..(w - 1) : mag.bytes[i] = 0
    IN IF body = <<>> \/ \E i \in DOMAIN ds : ds[i] < 0
       THEN [ok |-> FALSE, err |-> "InvalidValue", bytes |-> <<>>]
       ELSE IF neg /\ ~IsSigned(t)
       THEN [ok |-> FALSE, err |-> "InvalidValue", bytes |-> <<>>]
       ELSE IF ~mag.ok
       THEN [ok |-> FALSE, err |-> "InvalidValue", bytes |-> <<>>]
       ELSE IF IsSigned(t) /\ ~neg /\ top >= 128
       THEN [ok |-> FALSE, err |-> "InvalidValue", bytes |-> <<>>]
       ELSE IF IsSigned(t) /\ neg /\ top >= 128 /\ ~minv
       THEN [ok |-> FALSE, err |-> "InvalidValue", bytes |-> <<>>]
       ELSE [ok |-> TRUE, err |-> "None",
             bytes |-> IF neg THEN Negate(mag.bytes) ELSE mag.bytes]

\* encode for Hex: an optional 0x prefix, then pairs of hex digits
encode_hex(text) ==
    LET body == IF HasHexPrefix(text) THEN SubSeq(text, 3, Len(text)) ELSE text
        ds   == [i \in DOMAIN body |-> to_digit(body[i], 16)]
    IN IF Len(body) % 2 # 0 \/ \E i \in DOMAIN ds : ds[i] < 0
       THEN [ok |-> FALSE, err |-> "InvalidValue", bytes |-> <<>>]
       ELSE [ok |-> TRUE, err |-> "None",
             bytes |-> [i \in 1..(Len(body) \div 2) |->
                          16 * ds[2 * i - 1] + ds[2 * i]]]

\* encode for String: the bytes of the text, no terminator
encode_string(text) ==
    [ok |-> TRUE, err |-> "None",
     bytes |-> [i \in DOMAIN text |-> CharCode(text[i])]]

\* Scan::value_from_str: the codec's encode(text, type)
value_from_str(text, t) ==
    IF IsNumeric(t) THEN encode_numeric(text, t)
    ELSE IF t = "Hex" THEN encode_hex(text)
    ELSE encode_string(text)

\* Scan::set_value_from_str: encode the scan target; an empty target is rejected
set_value_from_str(text, t) ==
    LET e == value_from_str(text, t)
    IN IF e.ok /\ e.bytes = <<>>
       THEN [ok |-> FALSE, err |-> "InvalidValue", bytes |-> <<>>]
       ELSE e

\* decode for the numeric types: base-10 text of the little-endian value
decode_numeric(bytes, t) ==
    LET w   == fixed_width(t)
        neg == IsSigned(t) /\ bytes[w] >= 128
        mag == IF neg THEN Negate(bytes) ELSE bytes
        ds  == DecimalDigits(Reverse(mag))
        txt == IF ds = <<>> THEN <<"0">> ELSE ds
    IN IF Len(bytes) # w
       THEN [ok |-> FALSE, err |-> "InvalidValue", text |-> <<>>]
       ELSE [ok |-> TRUE, err |-> "None",
             text |-> IF neg THEN <<"-">> \o txt ELSE txt]

HexDigitChar(v) == IF v < 10 THEN Chr(48 + v) ELSE Chr(87 + v)

\* decode for Hex: lowercase digit pairs, no separator
decode_hex(bytes) ==
    [ok |-> TRUE, err |-> "None",
     text |-> [i \in 1..(2 * Len(bytes)) |->
                 IF i % 2 = 1 THEN HexDigitChar(bytes[(i + 1) \div 2] \div 16)
                 ELSE HexDigitChar(bytes[i \div 2] % 16)]]

\* decode for String: the text of the bytes; a byte outside the 7-bit set
\* is not the start of a character of the modelled alphabet and is refused.
decode_string(bytes) ==
    IF \E i \in DOMAIN bytes : bytes[i] >= 128
    THEN [ok |-> FALSE, err |-> "InvalidValue", text |-> <<>>]
    ELSE [ok |-> TRUE, err |-> "None", text |-> [i \in DOMAIN bytes |-> Chr(bytes[i])]]

\* ValueType::get_value_string: the codec's decode(bytes, type)
get_value_string(t, bytes) ==
    IF IsNumeric(t) THEN decode_numeric(bytes, t)
    ELSE IF t = "Hex" THEN decode_hex(bytes)
    ELSE decode_string(bytes)

-----------------------------------------------------------------------------
(* The target process and the region accessor *)

\* Process ids known to the host: 100 is live and accessible, 200 is live
\* but its mapping table is not readable, every other pid is not a process.
ProcStatus(pid) ==
    IF pid = 100 THEN "Live" ELSE IF pid = 200 THEN "Denied" ELSE "NotFound"

\* Mapping table of the live process: ascending, non-overlapping
FullLayout ==
    << [start |-> 2,  end |-> 8,  perms |-> {"Read", "Write"}],
       [start |-> 10, end |-> 14, perms |-> {"Read"}],
       [start |-> 14, end |-> 18, perms |-> {"Write"}],
       [start |-> 20, end |-> 56, perms |-> {"Read", "Write"}],
       [start |-> 60, end |-> 62, perms |-> {}] >>

WriteOnlyLayout ==
    << [start |-> 14, end |-> 18, perms |-> {"Write"}] >>

\* Contents of the address space 0..63 at the start (MemImage[a + 1])
MemImage ==
  <<
     0, 0, 1, 2, 3, 2, 3, 4, 0, 0, 5, 5, 5, 2, 3, 4,
     2, 3, 0, 0, 32, 32, 32, 32, 32, 44, 1, 0, 0, 32, 97, 98,
     32, 32, 32, 32, 32, 32, 32, 32, 2, 3, 32, 32, 32, 32, 32, 32,
     32, 32, 32, 32, 32, 32, 32, 32, 0, 0, 0, 0, 2, 3, 0, 0
  >>

Addrs == 0..(Len(MemImage) - 1)

ByteAt(a) == mem[a + 1]

Max(a, b) == IF a >= b THEN a ELSE b
Min(a, b) == IF a <= b THEN a ELSE b

\* list_regions(pid)
list_regions(pid) ==
    IF ProcStatus(pid) = "NotFound"
    THEN [ok |-> FALSE, err |-> "ProcessNotFound", regions |-> <<>>]
    ELSE IF ProcStatus(pid) = "Denied"
    THEN [ok |-> FALSE, err |-> "PermissionDenied", regions |-> <<>>]
    ELSE [ok |-> TRUE, err |-> "None", regions |-> regions]

\* Address a lies in a region of the live process that grants perm
Mapped(a, perm) ==
    \E i \in DOMAIN regions :
        /\ regions[i].start <= a
        /\ a < regions[i].end
        /\ perm \in regions[i].perms

\* read_memory_address(pid, address, size): exactly size bytes, or an error
read_memory_address(pid, address, size) ==
    IF ProcStatus(pid) = "NotFound"
    THEN [ok |-> FALSE, err |-> "ProcessNotFound", bytes |-> <<>>]
    ELSE IF ProcStatus(pid) = "Denied"
    THEN [ok |-> FALSE, err |-> "PermissionDenied", bytes |-> <<>>]
    ELSE IF \E a \in address..(address + size - 1) : ~Mapped(a, "Read")
    THEN [ok |-> FALSE, err |-> "AddressOutOfRange", bytes |-> <<>>]
    ELSE [ok |-> TRUE, err |-> "None",
          bytes |-> [i \in 1..size |-> ByteAt(address + i - 1)]]

\* write_memory_address(pid, address, bytes): the check before the write
write_memory_address(pid, address, bytes) ==
    IF ProcStatus(pid) = "NotFound"
    THEN [ok |-> FALSE, err |-> "ProcessNotFound"]
    ELSE IF ProcStatus(pid) = "Denied"
    THEN [ok |-> FALSE, err |-> "PermissionDenied"]
    ELSE IF \E a \in address..(address + Len(bytes) - 1) : ~Mapped(a, "Write")
    THEN [ok |-> FALSE, err |-> "AddressOutOfRange"]
    ELSE [ok |-> TRUE, err |-> "None"]

\* Memory after the first n of bytes have landed at address
MemWith(address, bytes, n) ==
    [i \in DOMAIN mem |->
        IF i - 1 >= address /\ i - 1 < address + n
        THEN bytes[i - address] ELSE mem[i]]

-----------------------------------------------------------------------------
(* Scan engine *)

\* Scan::new: the request; with both bounds given, start < end is required
ScanNew(start, end) ==
    IF start.some /\ end.some /\ ~U64Less(start.val, end.val)
    THEN [ok |-> FALSE, err |-> "InvalidValue"]
    ELSE [ok |-> TRUE, err |-> "None"]

NoRequest ==
    [ok |-> FALSE, err |-> "None", type |-> "None",
     start |-> parse_address(NoArg), end |-> parse_address(NoArg),
     target |-> <<>>]

BadRequest(kind) == [NoRequest EXCEPT !.err = kind]

\* Variant: the bounds reach Scan::new in the wrong order
scan_request_swapped(value, type_str, start_str, end_str) ==
    LET vt  == parse_value_type(type_str)
        s   == parse_address(start_str)
        e   == parse_address(end_str)
        new == ScanNew(e, s)
        tv  == set_value_from_str(value, vt.type)
    IN IF ~vt.ok THEN BadRequest(vt.err)
       ELSE IF ~s.ok THEN BadRequest(s.err)
       ELSE IF ~e.ok THEN BadRequest(e.err)
       ELSE IF ~new.ok THEN BadRequest(new.err)
       ELSE IF ~tv.ok THEN BadRequest(tv.err)
       ELSE [ok |-> TRUE, err |-> "None", type |-> vt.type,
             start |-> e, end |-> s, target |-> tv.bytes]

\* Variant: the end bound is parsed but not handed to Scan::new
scan_request_no_end(value, type_str, start_str, end_str) ==
    LET vt  == parse_value_type(type_str)
        s   == parse_address(start_str)
        e   == parse_address(end_str)
        new == ScanNew(s, parse_address(NoArg))
        tv  == set_value_from_str(value, vt.type)
    IN IF ~vt.ok THEN BadRequest(vt.err)
       ELSE IF ~s.ok THEN BadRequest(s.err)
       ELSE IF ~e.ok THEN BadRequest(e.err)
       ELSE IF ~new.ok THEN BadRequest(new.err)
       ELSE IF ~tv.ok THEN BadRequest(tv.err)
       ELSE [ok |-> TRUE, err |-> "None", type |-> vt.type,
             start |-> s, end |-> parse_address(NoArg), target |-> tv.bytes]

\* scan_memory, lines 133-138: value type, bounds, request, target value
scan_request(value, type_str, start_str, end_str) ==
    LET vt  == parse_value_type(type_str)
        s   == parse_address(start_str)
        e   == parse_address(end_str)
        new == ScanNew(s, e)
        tv  == set_value_from_str(value, vt.type)
    IN IF ~vt.ok THEN BadRequest(vt.err)
       ELSE IF ~s.ok THEN BadRequest(s.err)
       ELSE IF ~e.ok THEN BadRequest(e.err)
       ELSE IF ~new.ok THEN BadRequest(new.err)
       ELSE IF ~tv.ok THEN BadRequest(tv.err)
       ELSE [ok |-> TRUE, err |-> "None", type |-> vt.type,
             start |-> s, end |-> e, target |-> tv.bytes]

\* A region clipped to the requested bounds
Clip(r, req) ==
    [start |-> IF req.start.some THEN Max(r.start, U64ToNat(req.start.val))
               ELSE r.start,
     end   |-> IF req.end.some THEN Min(r.end, U64ToNat(req.end.val))
               ELSE r.end,
     perms |-> r.perms]

IsEligible(c) == "Read" \in c.perms /\ c.start < c.end

\* Step 1 of scan: readable regions intersecting the bounds, clipped
EligibleRegions(rs, req) ==
    SelectSeq([i \in DOMAIN rs |-> Clip(rs[i], req)], IsEligible)

\* Step 4 of scan: every offset i >= from (0-based, ascending) at which
\* the buffer holds the target
RECURSIVE SearchFrom(_, _, _)
SearchFrom(buffer, target, from) ==
    IF from + Len(target) > Len(buffer) THEN <<>>
    ELSE (IF SubSeq(buffer, from + 1, from + Len(target)) = target
          THEN <<from>> ELSE <<>>)
         \o SearchFrom(buffer, target, from + 1)

RegionBuffer(r) == [i \in 1..(r.end - r.start) |-> ByteAt(r.start + i - 1)]

\* Results of one region that was read
RegionResults(r, target) ==
    LET offs == SearchFrom(RegionBuffer(r), target, 0)
    IN [k \in DOMAIN offs |->
          [address |-> r.start + offs[k], perms |-> r.perms, bytes |-> target]]

\* ScanResult::get_string and the row printed for it (lines 148-158)
ResultRow(res, type_str, t) ==
    LET d == get_value_string(t, res.bytes)
    IN [ok |-> d.ok, err |-> d.err,
        row |-> [address |-> res.address, type |-> type_str,
                 perms |-> {IF p = "Read" THEN "R" ELSE "W" : p \in res.perms},
                 value |-> d.text]]

RowsOf(rs, type_str, t) == [k \in DOMAIN rs |-> ResultRow(rs[k], type_str, t)]

\* Index of the first result whose value cannot be rendered, 0 if none
FirstBad(rows) ==
    IF \E k \in DOMAIN rows : ~rows[k].ok
    THEN CHOOSE k \in DOMAIN rows :
            ~rows[k].ok /\ \A j \in 1..(k - 1) : rows[j].ok
    ELSE 0

\* Variant: the loop visits the results last to first
print_results_reversed(rs, type_str, t) ==
    LET all == RowsOf(rs, type_str, t)
    IN [ok |-> TRUE, err |-> "None",
        rows |-> [k \in DOMAIN all |-> all[Len(all) + 1 - k].row]]

\* Variant: the loop starts at the second result
print_results_skip_first(rs, type_str, t) ==
    LET all == RowsOf(rs, type_str, t)
    IN [ok |-> TRUE, err |-> "None",
        rows |-> [k \in 1..(Len(all) - 1) |-> all[k + 1].row]]

\* The loop of lines 147-159: one row per result, in result order; the
\* first result whose value cannot be rendered ends the command in error
\* after the rows before it.
print_results(rs, type_str, t) ==
    LET all == RowsOf(rs, type_str, t)
        bad == FirstBad(all)
    IN IF bad = 0
       THEN [ok |-> TRUE, err |-> "None", rows |-> [k \in DOMAIN all |-> all[k].row]]
       ELSE [ok |-> FALSE, err |-> all[bad].err,
             rows |-> [k \in 1..(bad - 1) |-> all[k].row]]

-----------------------------------------------------------------------------
(* Invocations *)

NoSize == 0 - 1

NoCmd ==
    [kind |-> "none", pid |-> 0, value |-> <<>>, type_str |-> <<>>,
     start_str |-> NoArg, end_str |-> NoArg, address_str |-> <<>>, size |-> NoSize]

NoPrev == [cmd |-> NoCmd, pc |-> "Idle", out |-> <<>>, mem |-> <<>>]

\* Everything but the command line and the mapping table
InitCommon ==
    /\ mem = MemImage
    /\ pc = "Idle"
    /\ err = "None"
    /\ touched = FALSE
    /\ request = NoRequest
    /\ eligible = <<>>
    /\ idx = 1
    /\ results = <<>>
    /\ readOk = {}
    /\ softFailures = 0
    /\ printed = <<>>
    /\ out = <<>>
    /\ prev = NoPrev
    /\ nops = 0

\* Variant: the regions are listed before the request is validated
ScanStartEnumFirst(pid, value, type_str, start_str, end_str) ==
    LET req  == scan_request(value, type_str, start_str, end_str)
        enum == list_regions(pid)
    IN /\ pc = "Idle"
       /\ cmd' = [NoCmd EXCEPT !.kind = "scan", !.pid = pid, !.value = value,
                               !.type_str = type_str, !.start_str = start_str,
                               !.end_str = end_str]
       /\ request' = req
       /\ touched' = TRUE
       /\ IF ~enum.ok
          THEN /\ pc' = "Failed"
               /\ err' = enum.err
               /\ eligible' = <<>>
          ELSE IF ~req.ok
          THEN /\ pc' = "Failed"
               /\ err' = req.err
               /\ eligible' = <<>>
          ELSE /\ pc' = "Scanning"
               /\ err' = "None"
               /\ eligible' = EligibleRegions(enum.regions, req)
       /\ idx' = 1
       /\ results' = <<>>
       /\ readOk' = {}
       /\ softFailures' = 0
       /\ printed' = <<>>
       /\ UNCHANGED <<mem, regions, out, prev, nops>>

\* scan_memory, lines 126-141 up to the enumeration inside scan.init():
\* the request is built and validated first, then the regions are listed.
ScanStart(pid, value, type_str, start_str, end_str) ==
    LET req  == scan_request(value, type_str, start_str, end_str)
        enum == list_regions(pid)
    IN /\ pc = "Idle"
       /\ cmd' = [NoCmd EXCEPT !.kind = "scan", !.pid = pid, !.value = value,
                               !.type_str = type_str, !.start_str = start_str,
                               !.end_str = end_str]
       /\ request' = req
       /\ IF ~req.ok
          THEN /\ pc' = "Failed"
               /\ err' = req.err
               /\ touched' = FALSE
               /\ eligible' = <<>>
          ELSE /\ touched' = TRUE
               /\ IF ~enum.ok
                  THEN /\ pc' = "Failed"
                       /\ err' = enum.err
                       /\ eligible' = <<>>
                  ELSE /\ pc' = "Scanning"
                       /\ err' = "None"
                       /\ eligible' = EligibleRegions(enum.regions, req)
       /\ idx' = 1
       /\ results' = <<>>
       /\ readOk' = {}
       /\ softFailures' = 0
       /\ printed' = <<>>
       /\ UNCHANGED <<mem, regions, out, prev, nops>>

\* scan.init(), steps 3 and 4 for the next eligible region: the read either
\* succeeds, and the buffer is searched, or fails, and the region is skipped.
ScanRegion ==
    /\ pc = "Scanning"
    /\ idx <= Len(eligible)
    /\ \E readSucceeds \in BOOLEAN :
         IF readSucceeds
         THEN /\ results' = results \o RegionResults(eligible[idx], request.target)
              /\ readOk' = readOk \cup {idx}
              /\ softFailures' = softFailures
         ELSE /\ results' = results
              /\ readOk' = readOk
              /\ softFailures' = softFailures + 1
    /\ idx' = idx + 1
    /\ UNCHANGED <<mem, regions, cmd, pc, err, touched, request, eligible,
                   printed, out, prev, nops>>

\* Variant: an empty result list is reported as an error
ScanFinishEmptyIsError ==
    LET p == print_results(results, cmd.type_str, request.type)
    IN /\ pc = "Scanning"
       /\ idx > Len(eligible)
       /\ printed' = p.rows
       /\ pc' = IF p.ok /\ results # <<>> THEN "Done" ELSE "Failed"
       /\ err' = IF results = <<>> THEN "InvalidValue" ELSE p.err
       /\ UNCHANGED <<mem, regions, cmd, touched, request, eligible, idx,
                      results, readOk, softFailures, out, prev, nops>>

\* scan_memory, lines 141-161: the results come back and are printed
ScanFinish ==
    LET p == print_results(results, cmd.type_str, request.type)
    IN /\ pc = "Scanning"
       /\ idx > Len(eligible)
       /\ printed' = p.rows
       /\ pc' = IF p.ok THEN "Done" ELSE "Failed"
       /\ err' = p.err
       /\ UNCHANGED <<mem, regions, cmd, touched, request, eligible, idx,
                      results, readOk, softFailures, out, prev, nops>>

\* Inputs of the scan command
ScanPids == {100, 200, 300}

ScanValues ==
    { <<"0", "2", "0", "3">>,
      <<"0", "5", "0", "5">>,
      <<"0", "x", "0", "2", "0", "3">>,
      <<"3", "0", "0">>,
      <<"a", "b">>,
      <<"z", "z">>,
      <<>> }

ScanTypes ==
    { <<"h", "e", "x">>, <<"H", "E", "X">>, <<"u", "3", "2">>,
      <<"u", "6", "4">>, <<"s", "t", "r", "i", "n", "g">>, <<"f", "3", "2">> }

ScanStarts ==
    { NoArg, <<"0", "x", "4">>, <<"c">>, <<"0", "x", "0", "x", "4">>, <<"z", "z">> }

ScanEnds ==
    { NoArg, <<"8">>, <<"0", "x", "c">>, <<"4">>, <<"0", "x">>,
      <<"f", "f", "f", "f", "f", "f", "f", "f">> }

InitScan ==
    /\ InitCommon
    /\ cmd = NoCmd
    /\ regions \in {FullLayout, WriteOnlyLayout}

NextScan ==
    \/ \E pid \in ScanPids, value \in ScanValues, type_str \in ScanTypes,
          start_str \in ScanStarts, end_str \in ScanEnds :
         ScanStart(pid, value, type_str, start_str, end_str)
    \/ ScanRegion
    \/ ScanFinish

SpecScan == InitScan /\ [][NextScan]_vars

-----------------------------------------------------------------------------
(* read and write commands *)

MaxOps == 2

DefaultTextSize == 32

\* Variant: the widths of the 32-bit and 64-bit types are exchanged
default_read_size_swapped(t) ==
    IF t \in {"U64", "I64"} THEN 4
    ELSE IF t \in {"U32", "I32"} THEN 8
    ELSE DefaultTextSize

\* read_memory, lines 175-179: the size read when none is given
default_read_size(t) ==
    IF t \in {"U64", "I64"} THEN 8
    ELSE IF t \in {"U32", "I32"} THEN 4
    ELSE DefaultTextSize

\* What an invocation leaves behind for the next one to be compared with:
\* the command and the bytes written if it was a successful write, and the
\* memory it left.
Summary ==
    IF cmd.kind = "write" /\ pc = "Done"
    THEN [cmd |-> cmd, pc |-> pc, out |-> out, mem |-> mem]
    ELSE [cmd |-> NoCmd, pc |-> "Idle", out |-> <<>>, mem |-> mem]

\* read_memory: address literal, value type, size, read, decode, print.
\* The read may also come back short, which is a failure.
ReadMemory(pid, address_str, type_str, size) ==
    LET addr == parse_hex_literal(address_str)
        vt   == parse_value_type(type_str)
        n    == IF size # NoSize THEN size ELSE default_read_size(vt.type)
        rd   == read_memory_address(pid, U64ToNat(addr.val), n)
        dec  == get_value_string(vt.type, rd.bytes)
    IN /\ nops < MaxOps
       /\ pc \in {"Idle", "Done", "Failed"}
       /\ cmd' = [NoCmd EXCEPT !.kind = "read", !.pid = pid,
                               !.address_str = address_str,
                               !.type_str = type_str, !.size = size]
       /\ prev' = Summary
       /\ nops' = nops + 1
       /\ IF ~addr.ok
          THEN pc' = "Failed" /\ err' = addr.err /\ out' = <<>> /\ touched' = FALSE
          ELSE IF ~vt.ok
          THEN pc' = "Failed" /\ err' = vt.err /\ out' = <<>> /\ touched' = FALSE
          ELSE IF ~rd.ok
          THEN pc' = "Failed" /\ err' = rd.err /\ out' = <<>> /\ touched' = TRUE
          ELSE \E short \in BOOLEAN :
                 IF short /\ n > 0
                 THEN pc' = "Failed" /\ err' = "ShortRead" /\ out' = <<>>
                      /\ touched' = TRUE
                 ELSE IF ~dec.ok
                 THEN pc' = "Failed" /\ err' = dec.err /\ out' = <<>>
                      /\ touched' = TRUE
                 ELSE pc' = "Done" /\ err' = "None" /\ out' = dec.text
                      /\ touched' = TRUE
       /\ UNCHANGED <<mem, regions, request, eligible, idx, results, readOk,
                      softFailures, printed>>

\* Variant: the result of write_memory_address is not propagated
WriteMemoryIgnoringError(pid, address_str, value, type_str) ==
    LET addr == parse_hex_literal(address_str)
        vt   == parse_value_type(type_str)
        new  == ScanNew(parse_address(NoArg), parse_address(NoArg))
        vb   == value_from_str(value, vt.type)
        wr   == write_memory_address(pid, U64ToNat(addr.val), vb.bytes)
    IN /\ nops < MaxOps
       /\ pc \in {"Idle", "Done", "Failed"}
       /\ cmd' = [NoCmd EXCEPT !.kind = "write", !.pid = pid,
                               !.address_str = address_str, !.value = value,
                               !.type_str = type_str]
       /\ prev' = Summary
       /\ nops' = nops + 1
       /\ IF ~addr.ok
          THEN pc' = "Failed" /\ err' = addr.err /\ out' = <<>> /\ touched' = FALSE
               /\ mem' = mem
          ELSE IF ~vt.ok
          THEN pc' = "Failed" /\ err' = vt.err /\ out' = <<>> /\ touched' = FALSE
               /\ mem' = mem
          ELSE IF ~new.ok
          THEN pc' = "Failed" /\ err' = new.err /\ out' = <<>> /\ touched' = FALSE
               /\ mem' = mem
          ELSE IF ~vb.ok
          THEN pc' = "Failed" /\ err' = vb.err /\ out' = <<>> /\ touched' = FALSE
               /\ mem' = mem
          ELSE IF ~wr.ok
          THEN pc' = "Done" /\ err' = "None" /\ out' = vb.bytes /\ touched' = TRUE
               /\ mem' = mem
          ELSE pc' = "Done" /\ err' = "None" /\ out' = vb.bytes
               /\ touched' = TRUE
               /\ mem' = MemWith(U64ToNat(addr.val), vb.bytes, Len(vb.bytes))
       /\ UNCHANGED <<regions, request, eligible, idx, results, readOk,
                      softFailures, printed>>

\* write_memory: address literal, value type, Scan::new without bounds,
\* encode, write.  The write call may report one byte fewer than requested,
\* which fails with WriteRejected and leaves the bytes that landed.
WriteMemory(pid, address_str, value, type_str) ==
    LET addr == parse_hex_literal(address_str)
        vt   == parse_value_type(type_str)
        new  == ScanNew(parse_address(NoArg), parse_address(NoArg))
        vb   == value_from_str(value, vt.type)
        wr   == write_memory_address(pid, U64ToNat(addr.val), vb.bytes)
    IN /\ nops < MaxOps
       /\ pc \in {"Idle", "Done", "Failed"}
       /\ cmd' = [NoCmd EXCEPT !.kind = "write", !.pid = pid,
                               !.address_str = address_str, !.value = value,
                               !.type_str = type_str]
       /\ prev' = Summary
       /\ nops' = nops + 1
       /\ IF ~addr.ok
          THEN pc' = "Failed" /\ err' = addr.err /\ out' = <<>> /\ touched' = FALSE
               /\ mem' = mem
          ELSE IF ~vt.ok
          THEN pc' = "Failed" /\ err' = vt.err /\ out' = <<>> /\ touched' = FALSE
               /\ mem' = mem
          ELSE IF ~new.ok
          THEN pc' = "Failed" /\ err' = new.err /\ out' = <<>> /\ touched' = FALSE
               /\ mem' = mem
          ELSE IF ~vb.ok
          THEN pc' = "Failed" /\ err' = vb.err /\ out' = <<>> /\ touched' = FALSE
               /\ mem' = mem
          ELSE IF ~wr.ok
          THEN pc' = "Failed" /\ err' = wr.err /\ out' = <<>> /\ touched' = TRUE
               /\ mem' = mem
          ELSE \E landed \in {Len(vb.bytes) - 1, Len(vb.bytes)} \cap Nat :
                 /\ touched' = TRUE
                 /\ mem' = MemWith(U64ToNat(addr.val), vb.bytes, landed)
                 /\ IF landed < Len(vb.bytes)
                    THEN pc' = "Failed" /\ err' = "WriteRejected" /\ out' = <<>>
                    ELSE pc' = "Done" /\ err' = "None" /\ out' = vb.bytes
       /\ UNCHANGED <<regions, request, eligible, idx, results, readOk,
                      softFailures, printed>>

\* Inputs of the read and write commands
TextOf32 == [i \in 1..DefaultTextSize |-> "a"]

T_u32    == <<"u", "3", "2">>
T_i64    == <<"i", "6", "4">>
T_string == <<"s", "t", "r", "i", "n", "g">>
T_hex    == <<"h", "e", "x">>

RWAddresses == { <<"0", "x", "1", "4">>, <<"5">>, <<"a">>, <<"e">> }

WriteValues ==
    { <<T_u32, <<"3", "0", "0">>>>,
      <<T_i64, <<"-", "1">>>>,
      <<T_string, <<"a", "b">>>>,
      <<T_string, TextOf32>>,
      <<T_hex, <<"0", "x", "0", "2", "0", "3">>>> }

WriteCmds ==
    { <<100, a, v[2], v[1]>> : a \in RWAddresses, v \in WriteValues }
    \cup { <<100, <<"z", "z">>, <<"3", "0", "0">>, T_u32>>,
           <<100, <<"0", "x", "1", "4">>, <<"z", "z">>, T_u32>>,
           <<100, <<"0", "x", "1", "4">>, <<"3", "0", "0">>, <<"f", "3", "2">>>>,
           <<100, <<"1", "4">>, <<"0", "0", "7">>, <<"U", "3", "2">>>>,
           <<200, <<"0", "x", "1", "4">>, <<"3", "0", "0">>, T_u32>>,
           <<300, <<"0", "x", "1", "4">>, <<"3", "0", "0">>, T_u32>> }

ReadKinds ==
    { <<T_u32, NoSize>>, <<T_u32, 2>>, <<T_i64, NoSize>>,
      <<T_string, NoSize>>, <<T_string, 2>>, <<T_string, 32>>,
      <<T_hex, NoSize>>, <<T_hex, 2>> }

ReadCmds ==
    { <<100, a, k[1], k[2]>> : a \in (RWAddresses \ {<<"0", "x", "1", "4">>})
                                       \cup {<<"1", "4">>},
                               k \in ReadKinds }
    \cup { <<100, <<"z", "z">>, T_u32, NoSize>>,
           <<100, <<"1", "4">>, <<"f", "3", "2">>, NoSize>>,
           <<200, <<"1", "4">>, T_u32, NoSize>>,
           <<300, <<"1", "4">>, T_u32, NoSize>> }

InitRW ==
    /\ InitCommon
    /\ cmd = NoCmd
    /\ regions = FullLayout

NextRW ==
    \/ \E c \in WriteCmds : WriteMemory(c[1], c[2], c[3], c[4])
    \/ \E c \in ReadCmds : ReadMemory(c[1], c[2], c[3], c[4])

SpecRW == InitRW /\ [][NextRW]_vars

-----------------------------------------------------------------------------
(* The value codec as the commands use it *)

\* write_memory, lines 199-202: the value type is parsed and the value text
\* encoded under it
CodecEncode ==
    LET vt == parse_value_type(cmd.type_str)
        e  == value_from_str(cmd.value, vt.type)
    IN /\ cmd.kind = "codec"
       /\ pc = "Idle"
       /\ IF ~vt.ok
          THEN pc' = "Failed" /\ err' = vt.err /\ request' = request
          ELSE IF ~e.ok
          THEN pc' = "Failed" /\ err' = e.err /\ request' = request
          ELSE /\ pc' = "Encoded"
               /\ err' = "None"
               /\ request' = [NoRequest EXCEPT !.ok = TRUE, !.type = vt.type,
                                               !.target = e.bytes]
       /\ UNCHANGED <<mem, regions, cmd, touched, eligible, idx, results,
                      readOk, softFailures, printed, out, prev, nops>>

\* read_memory, line 184: the bytes are decoded under the value type
CodecDecode ==
    LET d == get_value_string(request.type, request.target)
    IN /\ cmd.kind = "codec"
       /\ pc = "Encoded"
       /\ pc' = IF d.ok THEN "Done" ELSE "Failed"
       /\ err' = d.err
       /\ out' = d.text
       /\ UNCHANGED <<mem, regions, cmd, touched, request, eligible, idx,
                      results, readOk, softFailures, printed, prev, nops>>

CodecTexts ==
    { <<"0">>,
      <<"7">>,
      <<"3", "0", "0">>,
      <<"0", "0", "7">>,
      <<"-", "1">>,
      <<"2", "1", "4", "7", "4", "8", "3", "6", "4", "7">>,
      <<"2", "1", "4", "7", "4", "8", "3", "6", "4", "8">>,
      <<"-", "2", "1", "4", "7", "4", "8", "3", "6", "4", "8">>,
      <<"-", "2", "1", "4", "7", "4", "8", "3", "6", "4", "9">>,
      <<"4", "2", "9", "4", "9", "6", "7", "2", "9", "5">>,
      <<"4", "2", "9", "4", "9", "6", "7", "2", "9", "6">>,
      <<"9", "2", "2", "3", "3", "7", "2", "0", "3", "6", "8", "5", "4", "7", "7", "5", "8", "0", "7">>,
      <<"9", "2", "2", "3", "3", "7", "2", "0", "3", "6", "8", "5", "4", "7", "7", "5", "8", "0", "8">>,
      <<"-", "9", "2", "2", "3", "3", "7", "2", "0", "3", "6", "8", "5", "4", "7", "7", "5", "8", "0", "8">>,
      <<"-", "9", "2", "2", "3", "3", "7", "2", "0", "3", "6", "8", "5", "4", "7", "7", "5", "8", "0", "9">>,
      <<"1", "8", "4", "4", "6", "7", "4", "4", "0", "7", "3", "7", "0", "9", "5", "5", "1", "6", "1", "5">>,
      <<"1", "8", "4", "4", "6", "7", "4", "4", "0", "7", "3", "7", "0", "9", "5", "5", "1", "6", "1", "6">>,
      <<"a", "b", "c">>,
      <<>>,
      <<"1", "a", "2", "b">>,
      <<"1", "a", "2">>,
      <<"z", "z">>,
      <<"0", "x", "1", "a", "2", "b">>,
      <<"1", "2", "a">>,
      <<"0", "x", "1", "0">>,
      <<"-">>,
      <<"1", "A", "2", "B">> }

CodecTypes ==
    { <<"u", "3", "2">>,
      <<"i", "3", "2">>,
      <<"u", "6", "4">>,
      <<"i", "6", "4">>,
      <<"s", "t", "r", "i", "n", "g">>,
      <<"h", "e", "x">>,
      <<"I", "3", "2">>,
      <<"H", "e", "x">>,
      <<"f", "3", "2">> }

InitCodec ==
    /\ InitCommon
    /\ regions = FullLayout
    /\ \E t \in CodecTypes, v \in CodecTexts :
         cmd = [NoCmd EXCEPT !.kind = "codec", !.type_str = t, !.value = v]

NextCodec == CodecEncode \/ CodecDecode

SpecCodec == InitCodec /\ [][NextCodec]_vars

-----------------------------------------------------------------------------
(* Address literals as the commands parse them *)

\* scan_memory lines 134-135, read_memory line 172, write_memory line 198
ParseAddressArg ==
    LET r == parse_address(cmd.address_str)
    IN /\ cmd.kind = "addr"
       /\ pc = "Idle"
       /\ pc' = IF r.ok THEN "Done" ELSE "Failed"
       /\ err' = r.err
       /\ request' = [NoRequest EXCEPT !.ok = r.ok, !.start = r]
       /\ UNCHANGED <<mem, regions, cmd, touched, eligible, idx, results,
                      readOk, softFailures, printed, out, prev, nops>>

LiteralPrefixes == { <<>>, <<"0", "x">>, <<"0", "x", "0", "x">>, <<"0", "X">> }

LiteralSigns == { <<>>, <<"+">>, <<"-">> }

LiteralBodies ==
    { <<>>, <<"0">>, <<"1", "0">>, <<"f", "f">>, <<"F", "F">>, <<"1", "g">>,
      <<"0", "0", "1", "0">>,
      [i \in 1..16 |-> "f"],
      <<"1">> \o [i \in 1..16 |-> "0"],
      <<"0", "0">> \o [i \in 1..16 |-> "f"] }

AddressLiterals ==
    { p \o s \o b : p \in LiteralPrefixes, s \in LiteralSigns, b \in LiteralBodies }

InitAddr ==
    /\ InitCommon
    /\ regions = FullLayout
    /\ \E lit \in AddressLiterals \cup {NoArg} :
         cmd = [NoCmd EXCEPT !.kind = "addr", !.address_str = lit]

NextAddr == ParseAddressArg

SpecAddr == InitAddr /\ [][NextAddr]_vars

-----------------------------------------------------------------------------
(* Properties of the scan command, checked under SpecScan *)

\* The target occupies memory at a .. a + Len(target) - 1
MatchAt(a, target) ==
    \A k \in DOMAIN target : (a + k - 1) \in Addrs /\ ByteAt(a + k - 1) = target[k]

\* Addresses of a (clipped) region at which the whole target lies inside it
ExpectedAddrs(r, target) ==
    {a \in r.start..(r.end - Len(target)) : MatchAt(a, target)}

RowsInRegion(r) ==
    {j \in DOMAIN printed : printed[j].address >= r.start /\ printed[j].address < r.end}

CmdStart == parse_address(cmd.start_str)
CmdEnd   == parse_address(cmd.end_str)

\* C1: after a successful scan, for every eligible region that was read the
\* reported addresses are exactly the addresses region start + i at which
\* buffer[i .. i+L) equals the target, one result per occurrence (unaligned
\* and overlapping occurrences included, none when the target is longer than
\* the region), and the printed rows are the engine's results.
C1_ScanFindsExactlyTheMatches ==
    pc = "Done" =>
        /\ Len(printed) = Len(results)
        /\ \A j \in DOMAIN printed : printed[j].address = results[j].address
        /\ \A k \in readOk :
             /\ {printed[j].address : j \in RowsInRegion(eligible[k])}
                  = ExpectedAddrs(eligible[k], request.target)
             /\ Cardinality(RowsInRegion(eligible[k]))
                  = Cardinality(ExpectedAddrs(eligible[k], request.target))

\* C1 witness: the buffer 01 02 03 02 03 04 scanned for 02 03 gives offsets 1 and 3
C1_Witness ==
    /\ pc = "Done"
    /\ request.target = <<2, 3>>
    /\ 1 \in readOk
    /\ RegionBuffer(eligible[1]) = <<1, 2, 3, 2, 3, 4>>
    /\ {printed[j].address - eligible[1].start : j \in RowsInRegion(eligible[1])} = {1, 3}

\* C2: the results of a successful scan, and the rows printed for them, are
\* in strictly ascending address order.
C2_ResultsAscending ==
    pc = "Done" =>
        /\ \A i, j \in DOMAIN results :
             i < j => results[i].address < results[j].address
        /\ \A i, j \in DOMAIN printed :
             i < j => printed[i].address < printed[j].address

\* C2 witness: results from two regions, several in the first
C2_Witness ==
    /\ pc = "Done"
    /\ Len(printed) >= 3
    /\ printed[1].address < 8
    /\ printed[2].address < 8
    /\ printed[Len(printed)].address >= 20

\* State part of C3: a scan never fails once regions are being read, every
\* eligible region up to the current one was either read or skipped, a scan
\* in progress has a region to read or is ready to finish, and a finished
\* scan holds exactly the matches of the regions that were read (none when
\* every read failed).
SkippedRegionsOnly ==
    /\ pc = "Failed" => softFailures = 0 /\ readOk = {}
    /\ pc \in {"Scanning", "Done"} =>
         /\ softFailures + Cardinality(readOk) = idx - 1
         /\ readOk \subseteq 1..(idx - 1)
         /\ idx <= Len(eligible) + 1
    /\ pc = "Done" =>
         /\ idx = Len(eligible) + 1
         /\ err = "None"
         /\ {printed[j].address : j \in DOMAIN printed}
              = UNION {ExpectedAddrs(eligible[k], request.target) : k \in readOk}
         /\ (readOk = {} => printed = <<>>)

\* Step part of C3: every step of a scan in progress, whether the read
\* succeeded or failed, moves on to the next region or ends the scan in Done.
ScanGoesOn ==
    pc = "Scanning" =>
        \/ pc' = "Scanning" /\ idx' = idx + 1 /\ idx <= Len(eligible)
        \/ pc' = "Done" /\ idx > Len(eligible)

\* C3: a region that fails to read is skipped and the scan goes on: whatever
\* reads fail, the scan reads or skips every later region and ends in Done
\* with exactly the matches of the regions that were read.
C3_ReadFailureIsSkipped ==
    /\ []SkippedRegionsOnly
    /\ [][ScanGoesOn]_vars

\* C3 witness: a region failed to read, a later one was read and matched
C3_Witness ==
    /\ pc = "Done"
    /\ softFailures >= 1
    /\ \E k \in readOk : \E f \in 1..(k - 1) :
         /\ f \notin readOk
         /\ RowsInRegion(eligible[k]) # {}
         /\ ExpectedAddrs(eligible[f], request.target) # {}

\* C4: every result's span lies inside a readable region and inside the
\* requested bounds; a request that is valid for a live process never fails,
\* whatever regions are eligible, and no eligible region means no result.
C4_ResultsInsideRegionAndBounds ==
    /\ pc = "Done" =>
         \A j \in DOMAIN printed :
            LET a == printed[j].address
                L == Len(request.target)
            IN /\ \E i \in DOMAIN regions :
                    /\ "Read" \in regions[i].perms
                    /\ regions[i].start <= a
                    /\ a + L <= regions[i].end
               /\ CmdStart.some => a >= U64ToNat(CmdStart.val)
               /\ CmdEnd.some => a + L <= U64ToNat(CmdEnd.val)
    /\ pc = "Failed" /\ touched => ProcStatus(cmd.pid) # "Live"
    /\ pc \in {"Scanning", "Done"} /\ eligible = <<>> => results = <<>> /\ err = "None"

\* C4 witness: bounds 0x4..0xc clip the first region; only the match inside remains
C4_Witness ==
    /\ pc = "Done"
    /\ cmd.start_str = <<"0", "x", "4">>
    /\ cmd.end_str = <<"0", "x", "c">>
    /\ request.target = <<2, 3>>
    /\ MatchAt(3, request.target)
    /\ {printed[j].address : j \in DOMAIN printed} = {5}

\* C5: a scan fails exactly when its request is invalid or the enumeration
\* fails; a failed scan has no results; the error is InvalidValue,
\* ProcessNotFound or PermissionDenied; and an invalid value type, bound or
\* target value fails before the target process is touched.
C5_ScanFailsAsAWhole ==
    /\ pc = "Failed" =>
         /\ results = <<>> /\ printed = <<>>
         /\ err \in {"InvalidValue", "ProcessNotFound", "PermissionDenied"}
    /\ cmd.kind = "scan" =>
         (pc = "Failed" <=> (~request.ok \/ ProcStatus(cmd.pid) # "Live"))
    /\ cmd.kind = "scan" /\ request.ok /\ ProcStatus(cmd.pid) = "NotFound"
         => err = "ProcessNotFound"
    /\ cmd.kind = "scan" /\ request.ok /\ ProcStatus(cmd.pid) = "Denied"
         => err = "PermissionDenied"
    /\ err = "InvalidValue" => ~touched
    /\ cmd.kind = "scan"
         /\ ( \/ ~parse_value_type(cmd.type_str).ok
              \/ ~CmdStart.ok
              \/ ~CmdEnd.ok
              \/ ~value_from_str(cmd.value, parse_value_type(cmd.type_str).type).ok )
         => pc = "Failed" /\ err = "InvalidValue" /\ ~touched

\* C5 witness: the target text does not encode; the process is live and untouched
C5_Witness ==
    /\ pc = "Failed"
    /\ err = "InvalidValue"
    /\ ProcStatus(cmd.pid) = "Live"
    /\ cmd.value = <<"z", "z">>
    /\ parse_value_type(cmd.type_str).ok
    /\ CmdStart.ok /\ CmdEnd.ok
    /\ ~touched

\* C6: no scan runs (enumerates, reads or returns results) with both bounds
\* given and start >= end, or with an empty target pattern.
C6_NoScanWithBadBoundsOrEmptyTarget ==
    cmd.kind = "scan" /\ (touched \/ pc \in {"Scanning", "Done"}) =>
        /\ ~(CmdStart.some /\ CmdEnd.some /\ ~U64Less(CmdStart.val, CmdEnd.val))
        /\ request.target # <<>>
        /\ value_from_str(cmd.value, parse_value_type(cmd.type_str).type).bytes # <<>>

\* C6 witness: start 0xc, end 0x8 with a valid type and value is rejected untouched
C6_Witness ==
    /\ pc = "Failed"
    /\ ~touched
    /\ CmdStart.some /\ CmdEnd.some
    /\ ~U64Less(CmdStart.val, CmdEnd.val)
    /\ parse_value_type(cmd.type_str).ok
    /\ value_from_str(cmd.value, parse_value_type(cmd.type_str).type).ok
    /\ value_from_str(cmd.value, parse_value_type(cmd.type_str).type).bytes # <<>>

-----------------------------------------------------------------------------
(* Properties of the read and write commands, checked under SpecRW *)

CmdAddress == parse_hex_literal(cmd.address_str)
CmdType    == parse_value_type(cmd.type_str)
CmdBytes   == value_from_str(cmd.value, CmdType.type)

\* The current invocation is a write that reached write_memory_address
WriteInvoked ==
    /\ cmd.kind = "write"
    /\ CmdAddress.ok
    /\ CmdType.ok
    /\ CmdBytes.ok

WriteSpan ==
    U64ToNat(CmdAddress.val)..(U64ToNat(CmdAddress.val) + Len(CmdBytes.bytes) - 1)

\* C7 as stated: whenever a byte of the span lies outside every writable
\* region of the process pid (a pid that is no process has no region), the
\* write fails with AddressOutOfRange.
C7_Original ==
    WriteInvoked
      /\ (\E a \in WriteSpan :
            \/ ProcStatus(cmd.pid) = "NotFound"
            \/ ProcStatus(cmd.pid) = "Live" /\ ~Mapped(a, "Write"))
      => pc = "Failed" /\ err = "AddressOutOfRange"

\* C7 amended: for a live, accessible process a write whose span has a byte
\* outside every writable region fails with AddressOutOfRange and leaves
\* memory as it was; for any other pid it fails with ProcessNotFound or
\* PermissionDenied; a write succeeds only if its whole span is writable;
\* the regions and their permissions never change.
C7_WriteOutsideWritableFails ==
    /\ WriteInvoked /\ ProcStatus(cmd.pid) = "Live"
         /\ (\E a \in WriteSpan : ~Mapped(a, "Write"))
         => pc = "Failed" /\ err = "AddressOutOfRange" /\ mem = prev.mem
    /\ WriteInvoked /\ ProcStatus(cmd.pid) # "Live"
         => /\ pc = "Failed"
            /\ err \in {"ProcessNotFound", "PermissionDenied"}
            /\ mem = prev.mem
    /\ cmd.kind = "write" /\ pc = "Done"
         => /\ WriteInvoked
            /\ ProcStatus(cmd.pid) = "Live"
            /\ \A a \in WriteSpan : Mapped(a, "Write")
    /\ regions = FullLayout

\* C7 witness: a write into the read-only region is refused
C7_Witness ==
    /\ WriteInvoked
    /\ ProcStatus(cmd.pid) = "Live"
    /\ \E a \in WriteSpan : Mapped(a, "Read") /\ ~Mapped(a, "Write")
    /\ pc = "Failed"
    /\ err = "AddressOutOfRange"

RECURSIVE StripZeroChars(_)
StripZeroChars(s) ==
    IF s # <<>> /\ s[1] = "0" THEN StripZeroChars(Tail(s)) ELSE s

\* The text a value is displayed as: base 10 without leading zeros for the
\* numeric types, lowercase digit pairs for Hex, the text itself for String
CanonText(text, t) ==
    IF IsNumeric(t)
    THEN LET neg == text # <<>> /\ text[1] = "-"
             ds  == StripZeroChars(IF neg THEN Tail(text) ELSE text)
         IN IF ds = <<>> THEN <<"0">>
            ELSE IF neg THEN <<"-">> \o ds ELSE ds
    ELSE IF t = "Hex"
    THEN to_lowercase(IF HasHexPrefix(text) THEN SubSeq(text, 3, Len(text)) ELSE text)
    ELSE text

\* The previous invocation was a successful write and this one is a read of
\* the same process at the same address with the same value type
WriteThenRead ==
    /\ prev.cmd.kind = "write"
    /\ prev.pc = "Done"
    /\ cmd.kind = "read"
    /\ cmd.pid = prev.cmd.pid
    /\ CmdAddress.ok
    /\ CmdAddress.val = parse_hex_literal(prev.cmd.address_str).val
    /\ CmdType.ok
    /\ CmdType.type = parse_value_type(prev.cmd.type_str).type

WrittenSpan ==
    U64ToNat(CmdAddress.val)..(U64ToNat(CmdAddress.val) + Len(prev.out) - 1)

\* The read gave the written value back, or failed for a reason outside the
\* command: a short read, or a written span that is not readable
ReadGivesBack ==
    \/ pc = "Done" /\ out = CanonText(prev.cmd.value, CmdType.type)
    \/ pc = "Failed" /\ err = "ShortRead"
    \/ /\ pc = "Failed"
       /\ err = "AddressOutOfRange"
       /\ \E a \in WrittenSpan : ~Mapped(a, "Read")

\* C8 as stated: a read right after a successful write, same address and
\* type, with no explicit size or with the written length, gives the
\* written value back.
C8_Original ==
    WriteThenRead /\ (cmd.size = NoSize \/ cmd.size = Len(prev.out))
      => ReadGivesBack

\* C8 amended: the read gives the written value back when the size it reads
\* is the written length: an explicit size equal to it, or no explicit size
\* for a numeric type, or no explicit size for a String/Hex value of
\* exactly 32 bytes.
C8_ReadAfterWrite ==
    WriteThenRead
      /\ ( \/ cmd.size = Len(prev.out)
           \/ cmd.size = NoSize /\ IsNumeric(CmdType.type)
           \/ cmd.size = NoSize /\ Len(prev.out) = 32 )
      => ReadGivesBack

\* C8 witness: a 32-byte String read back with no explicit size
C8_Witness ==
    /\ WriteThenRead
    /\ CmdType.type = "String"
    /\ cmd.size = NoSize
    /\ Len(prev.out) = 32
    /\ pc = "Done"
    /\ out = prev.cmd.value

-----------------------------------------------------------------------------
(* Properties of the value codec, checked under SpecCodec *)

\* The command names this value type (whatever the case of the name)
NamedType(name) == cmd.kind = "codec" /\ to_lowercase(cmd.type_str) = name

\* Base-10 texts of values of each numeric type, the extremes included
U32Values ==
    { <<"0">>,
      <<"7">>,
      <<"3", "0", "0">>,
      <<"2", "1", "4", "7", "4", "8", "3", "6", "4", "7">>,
      <<"2", "1", "4", "7", "4", "8", "3", "6", "4", "8">>,
      <<"4", "2", "9", "4", "9", "6", "7", "2", "9", "5">> }
I32Values ==
    { <<"0">>,
      <<"7">>,
      <<"3", "0", "0">>,
      <<"-", "1">>,
      <<"2", "1", "4", "7", "4", "8", "3", "6", "4", "7">>,
      <<"-", "2", "1", "4", "7", "4", "8", "3", "6", "4", "8">> }
U64Values ==
    { <<"0">>,
      <<"7">>,
      <<"3", "0", "0">>,
      <<"2", "1", "4", "7", "4", "8", "3", "6", "4", "7">>,
      <<"2", "1", "4", "7", "4", "8", "3", "6", "4", "8">>,
      <<"4", "2", "9", "4", "9", "6", "7", "2", "9", "5">>,
      <<"4", "2", "9", "4", "9", "6", "7", "2", "9", "6">>,
      <<"9", "2", "2", "3", "3", "7", "2", "0", "3", "6", "8", "5", "4", "7", "7", "5", "8", "0", "7">>,
      <<"9", "2", "2", "3", "3", "7", "2", "0", "3", "6", "8", "5", "4", "7", "7", "5", "8", "0", "8">>,
      <<"1", "8", "4", "4", "6", "7", "4", "4", "0", "7", "3", "7", "0", "9", "5", "5", "1", "6", "1", "5">> }
I64Values ==
    { <<"0">>,
      <<"7">>,
      <<"3", "0", "0">>,
      <<"-", "1">>,
      <<"2", "1", "4", "7", "4", "8", "3", "6", "4", "7">>,
      <<"-", "2", "1", "4", "7", "4", "8", "3", "6", "4", "8">>,
      <<"2", "1", "4", "7", "4", "8", "3", "6", "4", "8">>,
      <<"-", "2", "1", "4", "7", "4", "8", "3", "6", "4", "9">>,
      <<"4", "2", "9", "4", "9", "6", "7", "2", "9", "5">>,
      <<"4", "2", "9", "4", "9", "6", "7", "2", "9", "6">>,
      <<"9", "2", "2", "3", "3", "7", "2", "0", "3", "6", "8", "5", "4", "7", "7", "5", "8", "0", "7">>,
      <<"-", "9", "2", "2", "3", "3", "7", "2", "0", "3", "6", "8", "5", "4", "7", "7", "5", "8", "0", "8">> }

\* Base-10 texts, in and out of range
DecimalTexts ==
    { <<"0">>,
      <<"7">>,
      <<"3", "0", "0">>,
      <<"-", "1">>,
      <<"2", "1", "4", "7", "4", "8", "3", "6", "4", "7">>,
      <<"2", "1", "4", "7", "4", "8", "3", "6", "4", "8">>,
      <<"-", "2", "1", "4", "7", "4", "8", "3", "6", "4", "8">>,
      <<"-", "2", "1", "4", "7", "4", "8", "3", "6", "4", "9">>,
      <<"4", "2", "9", "4", "9", "6", "7", "2", "9", "5">>,
      <<"4", "2", "9", "4", "9", "6", "7", "2", "9", "6">>,
      <<"9", "2", "2", "3", "3", "7", "2", "0", "3", "6", "8", "5", "4", "7", "7", "5", "8", "0", "7">>,
      <<"9", "2", "2", "3", "3", "7", "2", "0", "3", "6", "8", "5", "4", "7", "7", "5", "8", "0", "8">>,
      <<"-", "9", "2", "2", "3", "3", "7", "2", "0", "3", "6", "8", "5", "4", "7", "7", "5", "8", "0", "8">>,
      <<"-", "9", "2", "2", "3", "3", "7", "2", "0", "3", "6", "8", "5", "4", "7", "7", "5", "8", "0", "9">>,
      <<"1", "8", "4", "4", "6", "7", "4", "4", "0", "7", "3", "7", "0", "9", "5", "5", "1", "6", "1", "5">>,
      <<"1", "8", "4", "4", "6", "7", "4", "4", "0", "7", "3", "7", "0", "9", "5", "5", "1", "6", "1", "6">> }

\* Texts that name no number
NotNumericTexts ==
    { <<"a", "b", "c">>,
      <<>>,
      <<"1", "a", "2", "b">>,
      <<"1", "a", "2">>,
      <<"z", "z">>,
      <<"1", "2", "a">>,
      <<"-">>,
      <<"1", "A", "2", "B">> }

HexBody(text) == IF HasHexPrefix(text) THEN SubSeq(text, 3, Len(text)) ELSE text

MalformedHex(text) ==
    \/ Len(HexBody(text)) % 2 # 0
    \/ \E i \in DOMAIN HexBody(text) : to_digit(HexBody(text)[i], 16) < 0

CanonicalHex(text) ==
    /\ Len(text) % 2 = 0
    /\ \A i \in DOMAIN text :
         to_digit(text[i], 16) >= 0 /\ ToLowerChar(text[i]) = text[i]

\* A value of the type goes through encode and decode unchanged, in width bytes
RoundTrips(name, values, width) ==
    NamedType(name) /\ cmd.value \in values =>
        /\ pc # "Failed"
        /\ pc \in {"Encoded", "Done"} => Len(request.target) = width
        /\ pc = "Done" => out = cmd.value

\* A text that is no value of the numeric type is refused with InvalidValue
Refused(name, values) ==
    NamedType(name) /\ cmd.value \in (DecimalTexts \ values) \cup NotNumericTexts =>
        /\ pc \in {"Idle", "Failed"}
        /\ pc = "Failed" => err = "InvalidValue"

\* C9: decode(encode(text(v), t), t) gives v back for every value of every
\* type; numeric encodings are 4 or 8 little-endian bytes; out-of-range and
\* non-numeric text for a numeric type, and an odd digit count or a non-hex
\* character for Hex, fail with InvalidValue.
C9_CodecRoundTrip ==
    /\ RoundTrips(<<"u", "3", "2">>, U32Values, 4)
    /\ RoundTrips(<<"i", "3", "2">>, I32Values, 4)
    /\ RoundTrips(<<"u", "6", "4">>, U64Values, 8)
    /\ RoundTrips(<<"i", "6", "4">>, I64Values, 8)
    /\ Refused(<<"u", "3", "2">>, U32Values)
    /\ Refused(<<"i", "3", "2">>, I32Values)
    /\ Refused(<<"u", "6", "4">>, U64Values)
    /\ Refused(<<"i", "6", "4">>, I64Values)
    /\ NamedType(<<"s", "t", "r", "i", "n", "g">>) =>
         /\ pc # "Failed"
         /\ pc = "Done" => out = cmd.value
    /\ NamedType(<<"h", "e", "x">>) /\ CanonicalHex(cmd.value) =>
         /\ pc # "Failed"
         /\ pc \in {"Encoded", "Done"} => 2 * Len(request.target) = Len(cmd.value)
         /\ pc = "Done" => out = cmd.value
    /\ NamedType(<<"h", "e", "x">>) /\ MalformedHex(cmd.value) =>
         /\ pc \in {"Idle", "Failed"}
         /\ pc = "Failed" => err = "InvalidValue"
    /\ NamedType(<<"h", "e", "x">>) /\ cmd.value = <<"1", "a", "2", "b">>
         /\ pc \in {"Encoded", "Done"} => request.target = <<26, 43>>
    /\ NamedType(<<"i", "3", "2">>) /\ cmd.value = <<"3", "0", "0">>
         /\ pc \in {"Encoded", "Done"} => request.target = <<44, 1, 0, 0>>
    /\ NamedType(<<"u", "6", "4">>) /\ cmd.value = <<"3", "0", "0">>
         /\ pc \in {"Encoded", "Done"} => request.target = <<44, 1, 0, 0, 0, 0, 0, 0>>
    /\ NamedType(<<"i", "3", "2">>) /\ cmd.value = <<"-", "1">>
         /\ pc \in {"Encoded", "Done"} => request.target = <<255, 255, 255, 255>>

\* C9 witness: the least 64-bit signed value went through encode and decode
C9_Witness ==
    /\ NamedType(<<"i", "6", "4">>)
    /\ cmd.value = <<"-", "9", "2", "2", "3", "3", "7", "2", "0", "3", "6", "8", "5", "4", "7", "7", "5", "8", "0", "8">>
    /\ pc = "Done"
    /\ request.target = <<0, 0, 0, 0, 0, 0, 0, 128>>
    /\ out = cmd.value

-----------------------------------------------------------------------------
(* Properties of address literals, checked under SpecAddr *)

\* A non-empty string of hex digits after at most one leading 0x, whose
\* value fits in 64 bits
WellFormedLiteral(lit) ==
    /\ HexBody(lit) # <<>>
    /\ \A i \in DOMAIN HexBody(lit) : to_digit(HexBody(lit)[i], 16) >= 0
    /\ Len(StripZeroChars(HexBody(lit))) <= 16

LiteralValue(lit) ==
    StripZeros([i \in DOMAIN HexBody(lit) |-> to_digit(HexBody(lit)[i], 16)])

\* C10: an address literal is accepted if and only if it is a non-empty
\* string of hex digits with at most one optional leading 0x whose value fits
\* in 64 bits, and is then parsed to that value; every other literal fails
\* with InvalidValue without the target process being touched.
C10_AddressLiteralGrammar ==
    cmd.kind = "addr" /\ cmd.address_str # NoArg /\ pc # "Idle" =>
        /\ pc = "Done" <=> WellFormedLiteral(cmd.address_str)
        /\ pc = "Done" => request.start.val = LiteralValue(cmd.address_str)
        /\ pc = "Failed" => err = "InvalidValue" /\ ~touched

====
